---- MODULE Spec2Model ----
(***************************************************************************)
(* Model of the shard manager of src/src/gateway/shard_manager.rs:         *)
(* ShardingStrategy, ShardManager (new, start, messages, process), the     *)
(* queue-consumer task process_queue, start_shard and the fan-in sink      *)
(* MessageSink.                                                            *)
(*                                                                         *)
(* An Option<T> is a sequence of length at most one: << >> is None and     *)
(* <<x>> is Some(x).                                                       *)
(***************************************************************************)
EXTENDS Integers, Sequences, FiniteSets, TLC

VARIABLES
    strategy,        \* ShardManager.strategy
    queue,           \* ShardManager.queue: the VecDeque of enumerated ids
    shards,          \* ShardManager.shards: the key set of the registry
    message_stream,  \* ShardManager.message_stream: Option of the channel generation
    queue_channel,   \* the bounded mpsc channel behind queue_sender / queue_receiver
    queue_receiver,  \* ShardManager.queue_receiver: Option (the field, not the channel)
    consumer,        \* the task start() spawns from process_queue
    first_shard_id,  \* start()'s local first_shard_id, an Option
    starts,          \* number of start() calls made so far
    returned,        \* the streams messages() has handed out, oldest first
    last_error,      \* the last line written with error!
    failure,         \* "none", or the panic that ended the program
    merged,          \* the unbounded channel start() creates: its messages, in order
    connection,      \* per shard id: the state of its Shard::new future
    forward          \* per shard id: the forwarding task start_shard spawns

vars == <<strategy, queue, shards, message_stream, queue_channel, queue_receiver,
          consumer, first_shard_id, starts, returned, last_error, failure,
          merged, connection, forward>>

\* the state of the manager and its consumer task
manager_vars == <<strategy, queue, message_stream, queue_channel, queue_receiver,
                  consumer, first_shard_id, starts, returned, failure>>

\* the state start_shard and the forwarding tasks work on
shard_vars == <<shards, merged, connection, forward, last_error>>

(***************************************************************************)
(* Bounds of the model and constants of the program.                       *)
(***************************************************************************)
\* largest shard total (and so index and count) a strategy is built with
MaxTotal == 2

\* channel(10) in ShardManager::new
QueueBuffer == 10

\* Duration::from_secs(6) in process_queue
Cooldown == 6

\* the frames one shard's stream yields at most
MaxFrames == 2

\* the shard ids carried by the ready notifications given to process()
ReadyIds == {0, 1}

\* the shard ids start_shard is called with
ShardIds == 0..(MaxTotal - 1)

None == << >>

Some(x) == <<x>>

(***************************************************************************)
(* ShardingStrategy                                                        *)
(***************************************************************************)
Autoshard == [kind |-> "Autoshard", index |-> 0, count |-> 0, total |-> 0]

Range(i, c, t) == [kind |-> "Range", index |-> i, count |-> c, total |-> t]

auto == Autoshard

multi(count) == Range(0, count, count)

simple == Range(0, 1, 1)

range(index, count, total) == Range(index, count, total)

\* the strategies a manager is constructed with
Strategies ==
    {auto, simple}
        \cup {multi(n) : n \in 0..MaxTotal}
        \cup {range(i, c, MaxTotal) : i \in 0..MaxTotal, c \in 0..MaxTotal}

(***************************************************************************)
(* The bounded channel of futures::sync::mpsc as ShardManager uses it: one *)
(* Sender (queue_sender, never cloned) and one Receiver.  A channel built  *)
(* with channel(buffer) takes buffer messages plus one per sender: the     *)
(* send that brings the count above buffer succeeds and parks the sender,  *)
(* and a parked sender's try_send answers Full.                            *)
(***************************************************************************)
channel(buffer) == [msgs |-> << >>, parked |-> FALSE, open |-> TRUE, buffer |-> buffer]

try_send_never_full(ch, msg) ==
    IF ~ch.open
    THEN [result |-> "Disconnected", ch |-> ch]
    ELSE [result |-> "Ok", ch |-> [ch EXCEPT !.msgs = Append(@, msg)]]

try_send(ch, msg) ==
    IF ch.parked
    THEN [result |-> "Full", ch |-> ch]
    ELSE IF ~ch.open
    THEN [result |-> "Disconnected", ch |-> ch]
    ELSE [result |-> "Ok",
          ch |-> [ch EXCEPT !.msgs = Append(@, msg),
                            !.parked = (Len(ch.msgs) + 1 > ch.buffer)]]

\* Receiver::poll with a message waiting: the message leaves, the sender is unparked
receive(ch) == [ch EXCEPT !.msgs = Tail(@), !.parked = FALSE]

\* dropping the Receiver closes the channel, wakes the sender and drains the messages
drop_receiver(ch) == [ch EXCEPT !.msgs = << >>, !.parked = FALSE, !.open = FALSE]

\* Option::take: the value handed out and what is left behind
option_take_keep(opt) == [value |-> opt, rest |-> opt]

option_take(opt) == [value |-> opt, rest |-> None]

\* unbounded(): the channel of the merged message stream
unbounded == [msgs |-> << >>, open |-> TRUE]

\* a forwarding task that has not been spawned
idle == [pc |-> "unspawned", next |-> 0, buffered |-> None]

(***************************************************************************)
(* ShardManager::new                                                       *)
(***************************************************************************)
\* new() as it would be if it created the message channel itself
Init_with_stream ==
    /\ strategy \in Strategies
    /\ queue = << >>
    /\ shards = {}
    /\ message_stream = Some(0)
    /\ queue_channel = channel(QueueBuffer)
    /\ queue_receiver = Some("queue_receiver")
    /\ consumer = [pc |-> "unspawned", item |-> None]
    /\ first_shard_id = None
    /\ starts = 0
    /\ returned = << >>
    /\ last_error = ""
    /\ failure = "none"
    /\ merged = unbounded
    /\ connection = [id \in ShardIds |-> "none"]
    /\ forward = [id \in ShardIds |-> idle]

Init ==
    /\ strategy \in Strategies
    /\ queue = << >>
    /\ shards = {}
    /\ message_stream = None
    /\ queue_channel = channel(QueueBuffer)
    /\ queue_receiver = Some("queue_receiver")
    /\ consumer = [pc |-> "unspawned", item |-> None]
    /\ first_shard_id = None
    /\ starts = 0
    /\ returned = << >>
    /\ last_error = ""
    /\ failure = "none"
    /\ merged = [msgs |-> << >>, open |-> FALSE]
    /\ connection = [id \in ShardIds |-> "none"]
    /\ forward = [id \in ShardIds |-> idle]

(***************************************************************************)
(* ShardManager::start                                                     *)
(***************************************************************************)
\* for shard_id in shards_index..shards_count: the ids pushed, in order
enumerate_inclusive(shards_index, shards_count) ==
    [k \in 1..(IF shards_count + 1 > shards_index
               THEN shards_count + 1 - shards_index ELSE 0) |-> shards_index + k - 1]

enumerate_at_least_one(shards_index, shards_count) ==
    [k \in 1..(IF shards_count > shards_index
               THEN shards_count - shards_index ELSE 1) |-> shards_index + k - 1]

enumerate(shards_index, shards_count) ==
    [k \in 1..(IF shards_count > shards_index
               THEN shards_count - shards_index ELSE 0) |-> shards_index + k - 1]

Panic(message) == failure' = message

\* match self.strategy: Autoshard => unimplemented!(), Range(i, c, t) => (i, c, t);
\* None stands for the arm that does not return
resolve_single_shard(s) ==
    IF s.kind = "Autoshard" THEN Some(<<0, 1, 1>>) ELSE Some(<<s.index, s.count, s.total>>)

resolve(s) ==
    IF s.kind = "Autoshard" THEN None ELSE Some(<<s.index, s.count, s.total>>)

start ==
    /\ failure = "none"
    /\ starts' = starts + 1
    /\ UNCHANGED <<strategy, shards, returned, last_error, connection, forward>>
    /\ IF resolve(strategy) = None
       THEN /\ Panic("not yet implemented")
            /\ UNCHANGED <<queue, message_stream, queue_channel, queue_receiver,
                           consumer, first_shard_id, merged>>
       ELSE LET shards_index == resolve(strategy)[1][1]
                shards_count == resolve(strategy)[1][2]
                seeded == queue \o enumerate(shards_index, shards_count)
                taken  == option_take(queue_receiver)
            IN  /\ message_stream' = Some(starts + 1)
                /\ merged' = unbounded
                /\ IF seeded = << >>
                   THEN /\ Panic("shard start queue is empty")
                        /\ queue' = seeded
                        /\ UNCHANGED <<queue_channel, queue_receiver, consumer,
                                       first_shard_id>>
                   ELSE /\ queue' = Tail(seeded)
                        /\ first_shard_id' = Some(Head(seeded))
                        /\ queue_receiver' = taken.rest
                        /\ IF taken.value = None
                           THEN /\ Panic("queue_receiver: unwrap on None")
                                /\ UNCHANGED <<queue_channel, consumer>>
                           ELSE LET sent == try_send(queue_channel, Head(seeded))
                                IN  IF sent.result # "Ok"
                                    THEN /\ Panic("could not send first shard to start")
                                         /\ queue_channel' = drop_receiver(sent.ch)
                                         /\ UNCHANGED consumer
                                    ELSE /\ failure' = "none"
                                         /\ queue_channel' = sent.ch
                                         /\ consumer' = [pc |-> "waiting", item |-> None]

(***************************************************************************)
(* ShardManager::messages                                                  *)
(***************************************************************************)
messages_or_empty ==
    /\ failure = "none"
    /\ message_stream' = None
    /\ returned' = Append(returned, IF message_stream = None THEN 0 ELSE message_stream[1])
    /\ UNCHANGED <<strategy, queue, shards, queue_channel, queue_receiver, consumer,
                   first_shard_id, starts, last_error, failure, merged, connection,
                   forward>>

messages ==
    /\ failure = "none"
    /\ LET taken == option_take(message_stream)
       IN  /\ message_stream' = taken.rest
           /\ IF taken.value = None
              THEN /\ Panic("message_stream: unwrap on None")
                   /\ UNCHANGED returned
              ELSE /\ failure' = "none"
                   /\ returned' = Append(returned, taken.value[1])
    /\ UNCHANGED <<strategy, queue, shards, queue_channel, queue_receiver, consumer,
                   first_shard_id, starts, last_error, merged, connection, forward>>

(***************************************************************************)
(* ShardManager::process                                                   *)
(***************************************************************************)
\* GatewayEvent, as far as process() looks at it: event.ready.shard is an
\* Option<[u64; 2]> holding [shard id, shard total]
ReadyEvent(shard) == [kind |-> "Dispatch", event |-> "Ready", shard |-> shard]

GatewayEvents ==
    {ReadyEvent(Some(<<k, MaxTotal>>)) : k \in ReadyIds}
        \cup {ReadyEvent(None),
              [kind |-> "Dispatch", event |-> "MessageCreate", shard |-> None],
              [kind |-> "Heartbeat", event |-> "", shard |-> None]}

\* if let GatewayEvent::Dispatch(_, Event::Ready(event)) = event
is_ready_dispatch(event) == event.kind = "Dispatch" /\ event.event = "Ready"

\* match &event.ready.shard { Some(shard) => shard[0], None => return }
ready_shard_id_or_zero(event) ==
    IF event.shard = None THEN Some(0) ELSE Some(event.shard[1][1])

ready_shard_id(event) ==
    IF event.shard = None THEN None ELSE Some(event.shard[1][1])

\* process() as it would be if a ready shard released the next pending id
process_next_pending(event) ==
    /\ failure = "none"
    /\ UNCHANGED <<strategy, shards, message_stream, queue_receiver, consumer,
                   first_shard_id, starts, returned, failure, merged, connection,
                   forward>>
    /\ IF ~is_ready_dispatch(event)
       THEN UNCHANGED <<queue, queue_channel, last_error>>
       ELSE LET shard_id == ready_shard_id(event)
            IN  IF shard_id = None
                THEN /\ last_error' = "ready event has no shard id"
                     /\ UNCHANGED <<queue, queue_channel>>
                ELSE LET next_id == IF queue = << >> THEN shard_id[1] ELSE Head(queue)
                         sent == try_send(queue_channel, next_id)
                     IN  /\ queue' = IF queue = << >> THEN queue ELSE Tail(queue)
                         /\ queue_channel' = sent.ch
                         /\ last_error' =
                                IF sent.result = "Ok"
                                THEN last_error
                                ELSE "could not send shard id to queue mpsc receiver"

process(event) ==
    /\ failure = "none"
    /\ UNCHANGED <<strategy, queue, shards, message_stream, queue_receiver, consumer,
                   first_shard_id, starts, returned, failure, merged, connection,
                   forward>>
    /\ IF ~is_ready_dispatch(event)
       THEN UNCHANGED <<queue_channel, last_error>>
       ELSE LET shard_id == ready_shard_id(event)
            IN  IF shard_id = None
                THEN /\ last_error' = "ready event has no shard id"
                     /\ UNCHANGED queue_channel
                ELSE LET sent == try_send(queue_channel, shard_id[1])
                     IN  /\ queue_channel' = sent.ch
                         /\ last_error' =
                                IF sent.result = "Ok"
                                THEN last_error
                                ELSE "could not send shard id to queue mpsc receiver"

(***************************************************************************)
(* process_queue: the future is                                            *)
(*     queue_receiver.map(closure).into_future().map(|_| ())               *)
(* Stream::map only applies the closure to each id, so the stream's items  *)
(* are the futures the closure builds (sleep, then start_shard, then the   *)
(* registry insert).  into_future resolves with the first item and the     *)
(* rest of the stream, and map(|_| ()) drops both: the item is never       *)
(* polled and the receiver is dropped.                                     *)
(***************************************************************************)
\* the future the closure builds for one id
item_future(shard_id) == [shard_id |-> shard_id, sleep |-> Cooldown, polled |-> FALSE]

\* the channel after the task's poll found a message
after_first_item(ch) == drop_receiver(receive(ch))

process_queue ==
    /\ failure = "none"
    /\ consumer.pc = "waiting"
    /\ queue_channel.msgs # << >>
    /\ consumer' = [pc |-> "done", item |-> Some(item_future(Head(queue_channel.msgs)))]
    /\ queue_channel' = after_first_item(queue_channel)
    /\ UNCHANGED <<strategy, queue, shards, message_stream, queue_receiver,
                   first_shard_id, starts, returned, last_error, failure, merged,
                   connection, forward>>

(***************************************************************************)
(* start_shard and the future process_queue's closure wraps around it:     *)
(* Shard::new(token, [shard_id, shards_total], handle), on success the     *)
(* forwarding task is spawned and the closure's map inserts the shard in   *)
(* the registry; on failure the error is logged and nothing else happens.  *)
(***************************************************************************)
start_shard(shard_id) ==
    /\ failure = "none"
    /\ connection[shard_id] = "none"
    /\ connection' = [connection EXCEPT ![shard_id] = "connecting"]
    /\ UNCHANGED <<shards, merged, forward, last_error>>
    /\ UNCHANGED manager_vars

\* the registry after shards_map.borrow_mut().insert(shard_id, shard)
insert_alone(map, shard_id) == {shard_id}

insert(map, shard_id) == map \cup {shard_id}

\* let shard = match result { Ok(shard) => .., Err(e) => return future::err(..) }:
\* the shard start_shard goes on with, None when it returns the error
shard_of_any(shard_id, result) == Some(shard_id)

shard_of(shard_id, result) == IF result = "Ok" THEN Some(shard_id) ELSE None

\* Shard::new resolves with result, "Ok" or "Err"
shard_new_resolved(shard_id, result) ==
    /\ failure = "none"
    /\ connection[shard_id] = "connecting"
    /\ connection' = [connection EXCEPT ![shard_id] =
                          IF result = "Ok" THEN "live" ELSE "failed"]
    /\ IF shard_of(shard_id, result) # None
       THEN /\ forward' = [forward EXCEPT ![shard_id].pc = "running"]
            /\ shards' = insert(shards, shard_of(shard_id, result)[1])
            /\ UNCHANGED last_error
       ELSE /\ last_error' = "Error starting shard"
            /\ UNCHANGED <<forward, shards>>
    /\ UNCHANGED merged
    /\ UNCHANGED manager_vars

(***************************************************************************)
(* MessageSink and the forwarding task                                     *)
(*     shard.messages().map_err(..).forward(sink)                          *)
(* The sender's start_send answers Ready (the message is enqueued),        *)
(* NotReady (the message comes back) or an error (the receiver is gone).   *)
(* An UnboundedSender has no bound to answer NotReady for; the model lets  *)
(* it answer so all the same, as the Sink contract does, so that the       *)
(* adapter's NotReady arm is exercised.                                    *)
(***************************************************************************)
sender_answers(ch) == IF ch.open THEN {"Ready", "NotReady"} ELSE {"Err"}

\* UnboundedSender::start_send(msg) answering `answer`
sender_start_send(ch, msg, answer) ==
    CASE answer = "Ready" ->
            [result |-> "Ready", ch |-> [ch EXCEPT !.msgs = Append(@, msg)],
             back |-> None]
      [] answer = "NotReady" -> [result |-> "NotReady", ch |-> ch, back |-> Some(msg)]
      [] OTHER -> [result |-> "Err", ch |-> ch, back |-> None]

\* a message of the merged stream: (shard, frame)
Message(shard, item) == [shard |-> shard, item |-> item]

\* MessageSink::start_send(item) of the sink bound to `shard`
MessageSink_start_send_first_shard(shard, ch, item, answer) ==
    LET sent == sender_start_send(ch, Message(0, item), answer)
    IN  IF sent.result = "NotReady"
        THEN [result |-> "NotReady", ch |-> sent.ch, back |-> Some(sent.back[1].item)]
        ELSE sent

MessageSink_start_send(shard, ch, item, answer) ==
    LET sent == sender_start_send(ch, Message(shard, item), answer)
    IN  IF sent.result = "NotReady"
        THEN [result |-> "NotReady", ch |-> sent.ch, back |-> Some(sent.back[1].item)]
        ELSE sent

\* the forwarding task after a step of forward(sink): an error of the stream
\* or of the sink resolves the future, which logs it and ends the task
pc_after_retrying(result) == "running"

pc_after(result) == IF result = "Err" THEN "failed" ELSE "running"

\* Forward::try_start_send(item) for the task of shard_id, which has pulled
\* `pulled` frames from the shard's stream
try_start_send(shard_id, item, pulled) ==
    \E answer \in sender_answers(merged) :
        LET sent == MessageSink_start_send(shard_id, merged, item, answer)
        IN  /\ merged' = sent.ch
            /\ forward' =
                 [forward EXCEPT ![shard_id] =
                    [pc |-> pc_after(sent.result),
                     next |-> pulled,
                     buffered |-> sent.back]]
            /\ last_error' = IF sent.result = "Err"
                             THEN "Error forwarding shard messages to sink"
                             ELSE last_error

\* one turn of Forward::poll's loop in the task of shard_id; the shard's
\* stream yields the frames 1, 2, ... in this order, fails or ends
forward_poll(shard_id) ==
    /\ failure = "none"
    /\ forward[shard_id].pc = "running"
    /\ LET task == forward[shard_id]
       IN  IF task.buffered # None
           THEN try_start_send(shard_id, task.buffered[1], task.next)
           ELSE \/ /\ task.next < MaxFrames
                   /\ try_start_send(shard_id, task.next + 1, task.next + 1)
                \/ /\ forward' = [forward EXCEPT ![shard_id].pc = pc_after("Err")]
                   /\ last_error' = "Error forwarding shard messages to sink"
                   /\ UNCHANGED merged
                \/ /\ forward' = [forward EXCEPT ![shard_id].pc = "finished"]
                   /\ UNCHANGED <<merged, last_error>>
    /\ UNCHANGED <<shards, connection>>
    /\ UNCHANGED manager_vars

\* the caller drops the MessageStream it took with messages()
drop_message_stream ==
    /\ failure = "none"
    /\ returned # << >>
    /\ merged.open
    /\ merged' = [merged EXCEPT !.open = FALSE]
    /\ UNCHANGED <<shards, connection, forward, last_error>>
    /\ UNCHANGED manager_vars

Next ==
    \/ start
    \/ messages
    \/ \E event \in GatewayEvents : process(event)
    \/ process_queue

Spec == Init /\ [][Next]_vars

\* the event loop polls a spawned task that can make progress
FairSpec == Spec /\ WF_vars(process_queue)

(***************************************************************************)
(* start_shard, the registry insert and the forwarding tasks on their own: *)
(* the manager is as start() and messages() leave it on multi(MaxTotal),   *)
(* and start_shard is called for the owned ids.                            *)
(***************************************************************************)
ShardInit ==
    /\ strategy = multi(MaxTotal)
    /\ queue = Tail(enumerate(0, MaxTotal))
    /\ shards = {}
    /\ message_stream = None
    /\ queue_channel = try_send(channel(QueueBuffer), 0).ch
    /\ queue_receiver = None
    /\ consumer = [pc |-> "waiting", item |-> None]
    /\ first_shard_id = Some(0)
    /\ starts = 1
    /\ returned = <<1>>
    /\ last_error = ""
    /\ failure = "none"
    /\ merged = unbounded
    /\ connection = [id \in ShardIds |-> "none"]
    /\ forward = [id \in ShardIds |-> idle]

ShardNext ==
    \/ \E id \in ShardIds : start_shard(id)
    \/ \E id \in ShardIds, result \in {"Ok", "Err"} : shard_new_resolved(id, result)
    \/ \E id \in ShardIds : forward_poll(id)
    \/ drop_message_stream

ShardSpec == ShardInit /\ [][ShardNext]_vars

(***************************************************************************)
(* The claims.                                                             *)
(***************************************************************************)
\* the ids the first start() enumerated: the id it popped, then the rest
enumerated == first_shard_id \o queue

\* a ready notification carrying shard id k
Ready(k) == ReadyEvent(Some(<<k, MaxTotal>>))

\* C2: for every range(index, count, total) with count >= 1 and
\* index + count <= total, start() enumerates exactly the count ids
\* index, ..., index + count - 1, in ascending order, each below total.
C2_RangeEnumeratesCountIds ==
    (/\ starts = 1
     /\ strategy.kind = "Range"
     /\ strategy.count >= 1
     /\ strategy.index + strategy.count <= strategy.total)
        => /\ enumerated = [k \in 1..strategy.count |-> strategy.index + k - 1]
           /\ \A k \in 1..Len(enumerated) : enumerated[k] < strategy.total

\* C3: when process() handles the ready notification of the shard handed to
\* the consumer last while owned ids are still pending, the id that enters
\* the startup queue is the next pending owned id.
C3_ReadyReleasesNextPending ==
    [][\A k \in ReadyIds :
          (/\ process(Ready(k))
           /\ starts = 1
           /\ first_shard_id = Some(k)
           /\ queue # << >>)
              => queue_channel'.msgs = Append(queue_channel.msgs, Head(queue))]_vars

\* C4: after start() on Range(0, n, n), n >= 1, every owned id 0..n-1 is
\* eventually in the registry (unless the program has panicked meanwhile).
C4_EveryOwnedIdRegistered ==
    (/\ starts = 1
     /\ failure = "none"
     /\ strategy.kind = "Range"
     /\ strategy.index = 0
     /\ strategy.count >= 1
     /\ strategy.count = strategy.total)
        ~> \/ \A id \in 0..(strategy.count - 1) : id \in shards
           \/ failure # "none"

\* C5: start() on multi(n), n >= 1, enumerates exactly 0, 1, ..., n-1 in
\* ascending order, and start() on simple() enumerates exactly the id 0.
C5_MultiSimpleEnumerate ==
    /\ \A n \in 1..MaxTotal :
          (starts = 1 /\ strategy = multi(n)) => enumerated = [k \in 1..n |-> k - 1]
    /\ (starts = 1 /\ strategy = simple) => enumerated = <<0>>

C5_Witness ==
    /\ starts = 1
    /\ failure = "none"
    /\ strategy = multi(2)
    /\ first_shard_id = Some(0)
    /\ queue = <<1>>
    /\ queue_channel.msgs = <<0>>

\* the messages of the merged stream tagged with shard id, in order
of_shard(id) ==
    LET tagged(m) == m.shard = id
    IN  SelectSeq(merged.msgs, tagged)

\* C6: under any interleaving of the forwarding tasks, the frames of one
\* shard that its sink accepted are in the merged stream exactly once each,
\* tagged with that shard and in the order the shard produced them; a frame
\* answered with not-ready is handed back untagged, kept for the retry, and
\* nothing is enqueued for it.
C6_FanInKeepsShardAndOrder ==
    /\ \A i \in 1..Len(merged.msgs) : connection[merged.msgs[i].shard] = "live"
    /\ \A id \in ShardIds :
          LET task == forward[id]
              sent == of_shard(id)
          IN  /\ \A i \in 1..Len(sent) : sent[i].item = i
              /\ task.buffered # None
                    => task.buffered = Some(task.next) /\ Len(sent) = task.next - 1
              /\ (task.buffered = None /\ task.pc # "failed") => Len(sent) = task.next
              /\ (task.buffered = None /\ task.pc = "failed")
                    => Len(sent) \in {task.next - 1, task.next}

C6_Witness ==
    merged.msgs = <<Message(0, 1), Message(1, 1), Message(0, 2)>>

\* C7: after a successful start() the first messages() call returns the
\* stream that start() created, and every later messages() call panics and
\* returns no stream.
C7_MessagesAtMostOnce ==
    [][messages =>
          /\ (starts >= 1 /\ returned = << >>)
                => failure' = "none" /\ returned' = <<starts>>
          /\ returned # << >> => failure' # "none" /\ returned' = returned]_vars

C7_Witness ==
    /\ returned = <<1>>
    /\ failure = "message_stream: unwrap on None"

\* C8 as stated: a second start() after a successful first one runs to
\* completion, spawning a consumer task and pushing the first id again.
C8_SecondStartReruns ==
    [][(start /\ starts >= 1) =>
          /\ failure' = "none"
          /\ consumer'.pc = "waiting"
          /\ queue_channel'.msgs = Append(queue_channel.msgs, first_shard_id'[1])]_vars

\* C8 amended: a second start() after a successful first one panics when it
\* takes the queue receiver, which the first call took: by then it has
\* replaced the message stream by a fresh channel and enumerated the ids
\* onto the pending list again, and it spawns no consumer task and pushes
\* no id onto the startup queue.
C8_SecondStartPanics ==
    [][(start /\ starts >= 1) =>
          /\ failure' = "queue_receiver: unwrap on None"
          /\ message_stream' = Some(starts + 1)
          /\ merged' = unbounded
          /\ Len(queue') = Len(queue) + strategy.count - strategy.index - 1
          /\ UNCHANGED <<queue_channel, consumer, queue_receiver>>]_vars

C8_Witness ==
    /\ starts = 2
    /\ failure = "queue_receiver: unwrap on None"
    /\ message_stream = Some(2)

\* C9: in every reachable state process() of a ready notification carrying
\* id k ends without failure and, when the startup queue is not full,
\* appends k to the startup queue.
C9_ReadyAlwaysRequeues ==
    [][\A k \in ReadyIds :
          (process(Ready(k)) /\ Len(queue_channel.msgs) < QueueBuffer + 1)
              => /\ failure' = "none"
                 /\ queue_channel'.msgs = Append(queue_channel.msgs, k)]_vars

\* C10: process(event) leaves the startup queue, the pending list, the
\* registry and the message stream unchanged whenever event is not a ready
\* dispatch carrying a shard id, a ready dispatch without shard id included.
C10_OtherEventsChangeNothing ==
    [][\A event \in GatewayEvents :
          (process(event) /\ (~is_ready_dispatch(event) \/ event.shard = None))
              => UNCHANGED <<queue_channel, queue, shards, message_stream, merged>>]_vars

C10_Witness ==
    /\ last_error = "ready event has no shard id"
    /\ starts = 1
    /\ failure = "none"
    /\ queue_channel.msgs = <<0>>
    /\ queue = <<1>>

\* C11: start() on a manager whose strategy is Autoshard always panics, and
\* before any effect: no message channel is created, no id is enumerated or
\* pushed, the queue receiver is not taken and no consumer task is spawned.
C11_AutoshardFatalBeforeEffect ==
    [][(start /\ strategy = Autoshard) =>
          /\ failure' = "not yet implemented"
          /\ UNCHANGED <<message_stream, merged, queue, first_shard_id,
                         queue_channel, queue_receiver, consumer, shards>>]_vars

C11_Witness ==
    /\ strategy = Autoshard
    /\ failure = "not yet implemented"
    /\ starts = 1
    /\ message_stream = None
    /\ queue_receiver # None
    /\ consumer.pc = "unspawned"

\* C12: a first start() on a Range strategy that enumerates at least one id
\* pushes the first id onto the startup queue whatever process() calls came
\* before, and returns with nothing registered.
C12_FirstStartAlwaysPushes ==
    [][(/\ start
        /\ starts = 0
        /\ strategy.kind = "Range"
        /\ strategy.index < strategy.count) =>
          /\ failure' = "none"
          /\ queue_channel'.msgs = Append(queue_channel.msgs, strategy.index)
          /\ shards' = {}]_vars

\* C13: the consumer task runs continuously: when it takes an id from the
\* startup queue it goes on to the connection attempt for that id and is
\* then waiting for the next id, the ids behind it still in the queue.
C13_ConsumerKeepsRunning ==
    [][process_queue =>
          /\ consumer'.pc # "done"
          /\ queue_channel'.open
          /\ queue_channel'.msgs = Tail(queue_channel.msgs)]_vars

C15_FailedConnectionIsTerminal ==
    [][\A k \in ShardIds :
          /\ shard_new_resolved(k, "Err") =>
                /\ connection'[k] = "failed"
                /\ UNCHANGED <<shards, forward, merged, queue_channel, queue, consumer>>
          /\ connection[k] = "failed" =>
                /\ connection'[k] = "failed"
                /\ k \notin shards'
                /\ forward'[k] = idle]_vars

C15_Witness ==
    /\ connection[0] = "failed"
    /\ connection[1] = "live"
    /\ shards = {1}
    /\ forward[0] = idle
    /\ last_error = "Error starting shard"

\* C16: in every reachable state each id in the registry is one whose
\* connection attempt has resolved successfully, and an id once in the
\* registry is never removed.
C16_RegistryOnlyGrows ==
    [][/\ \A id \in shards : connection[id] = "live"
       /\ \A id \in shards' : connection'[id] = "live"
       /\ shards \subseteq shards']_vars

C16_Witness ==
    /\ shards = {0, 1}
    /\ connection[0] = "live"
    /\ connection[1] = "live"

\* C17: when one shard's forwarding task ends on a forwarding error (its
\* frame stream fails, or the shared channel rejects the delivery), only
\* that task ends: the shard stays in the registry, it contributes no
\* further message to the merged stream, and the other forwarding tasks and
\* the queue consumer are as they were.
C17_ForwardingErrorEndsOneTask ==
    [][\A id \in ShardIds :
          /\ (/\ forward_poll(id)
              /\ ~merged.open
              /\ forward[id].buffered # None \/ forward'[id].next > forward[id].next)
                => forward'[id].pc = "failed"
          /\ (forward_poll(id) /\ forward'[id].pc = "failed") =>
                /\ id \in shards'
                /\ shards' = shards
                /\ merged' = merged
                /\ \A other \in ShardIds \ {id} : forward'[other] = forward[other]
                /\ consumer' = consumer
                /\ failure' = "none"
          /\ forward[id].pc = "failed" =>
                /\ forward'[id] = forward[id]
                /\ id \in shards'
                /\ of_shard(id)' = of_shard(id)]_vars

C17_Witness ==
    /\ forward[0].pc = "failed"
    /\ forward[1].pc = "running"
    /\ shards = {0, 1}
    /\ merged.open
    /\ merged.msgs = <<Message(0, 1), Message(1, 1), Message(1, 2)>>

\* C18: the merged message stream exists only between the start() that
\* created it and the first messages() call after it; messages() on a
\* manager on which start() has not run panics and returns no stream.
C18_NoStreamBeforeStart ==
    [][/\ message_stream # None =>
             /\ starts >= 1
             /\ message_stream = Some(starts)
             /\ \A i \in 1..Len(returned) : returned[i] # starts
       /\ (messages /\ starts = 0) =>
             /\ failure' = "message_stream: unwrap on None"
             /\ returned' = << >>
             /\ message_stream' = None]_vars

C18_Witness ==
    /\ starts = 0
    /\ failure = "message_stream: unwrap on None"
    /\ returned = << >>

\* C19: start() on a Range strategy whose enumeration yields no id (such as
\* multi(0)) panics on the empty queue before the queue receiver is taken,
\* before any id is pushed onto the startup queue and before the consumer
\* task is spawned.
C19_EmptyRangeAbortsEarly ==
    [][(/\ start
        /\ starts = 0
        /\ strategy.kind = "Range"
        /\ strategy.index >= strategy.count) =>
          /\ failure' = "shard start queue is empty"
          /\ queue' = << >>
          /\ first_shard_id' = None
          /\ UNCHANGED <<queue_receiver, queue_channel, consumer>>]_vars

C19_Witness ==
    /\ strategy = multi(0)
    /\ starts = 1
    /\ failure = "shard start queue is empty"
    /\ queue_receiver # None
    /\ consumer.pc = "unspawned"
    /\ queue_channel.msgs = << >>

====
